---- MODULE Spec2Model ----
(***************************************************************************)
(* Model of onlyfiles-downloader.py: a batch downloader that runs one      *)
(* download_file coroutine per input line on a single asyncio event loop,  *)
(* gated by a counting semaphore.                                          *)
(*                                                                         *)
(* Strings are sequences of tokens (a token is a run of characters that    *)
(* the program never looks inside).  The event loop is cooperative: one    *)
(* coroutine runs at a time and gives up control only at an await.         *)
(*                                                                         *)
(* The environment decides what each request meets: a good response with   *)
(* one of several content-disposition headers, a failure before the body,  *)
(* a failure of open(), a body of any length up to MaxChunks, a failure    *)
(* while streaming.  log_error and progress.update are taken to succeed.   *)
(***************************************************************************)
EXTENDS Integers, Sequences, FiniteSets, TLC

(* ------------------------------ bounds -------------------------------- *)

\* Largest number of raw lines of the input file.
MaxLines == 3

\* Largest number of 8192-byte chunks of a response body.
MaxChunks == 1

\* Line 13 sets 15; the model runs the gate with a smaller cap so that runs
\* with more tasks than slots stay small.
MAX_CONCURRENT_DOWNLOADS == 2

(* ----------------------------- constants ------------------------------ *)

BASE_DOWNLOAD_FOLDER == <<"downloads">>

Timestamp == <<"2026-01-01_00-00-00">>

API_BASE == <<"https://api.pillows.su/api/download/">>

\* Runs of 16 characters of [a-f0-9].
HexRuns == {"deadbeefdeadbeef", "0123456789abcdef"}

HexLen(tok) == IF tok \in HexRuns THEN 16 ELSE 0

Whitespace == {" ", "\n"}

Unknown == <<"unknown">>

(* ------------------------------ inputs -------------------------------- *)

LineCanonical == <<"https://", "pillowcase.su/f/", "deadbeefdeadbeef", "deadbeefdeadbeef">>

LineWrapped ==
  <<"https://href.li/?", "https://", "pillowcase.su/f/", "0123456789abcdef", "0123456789abcdef">>

LineNoId == <<"https://", "pillowcase.su/f/", "deadbeefdeadbeef">>

LineJunk == <<"not a valid url at all">>

\* The raw lines an input file is made of, as iterating the file yields them.
RawLines ==
  { <<"\n">>,
    LineCanonical \o <<"\n">>,
    LineNoId \o <<"\n">>,
    <<" ">> \o LineJunk \o <<"\n">> }

\* The content-disposition headers a response can carry (<<>>: no header).
Headers ==
  { <<>>,
    <<"inline">>,
    <<"attachment; ", "filename=", "\"", "song.mp3", "\"">>,
    <<"attachment; ", "filename=", "..", "/", "evil.sh">>,
    <<"attachment; ", "filename=", "\"", "/", "evil.sh", "\"">>,
    <<"attachment; ", "filename=", "\"", "\"">> }

BoundedSeq(S, n) == UNION { [1..k -> S] : k \in 0..n }

(* --------------------------- string helpers --------------------------- *)

RECURSIVE LStrip(_, _)
LStrip(s, chars) ==
  IF s # <<>> /\ Head(s) \in chars THEN LStrip(Tail(s), chars) ELSE s

RECURSIVE RStrip(_, _)
RStrip(s, chars) ==
  IF s # <<>> /\ s[Len(s)] \in chars THEN RStrip(SubSeq(s, 1, Len(s) - 1), chars) ELSE s

\* str.strip(): drop the leading and trailing characters of `chars`.
Strip(s, chars) == RStrip(LStrip(s, chars), chars)

\* `tok in s`
Contains(s, tok) == \E i \in 1..Len(s) : s[i] = tok

\* s.split(tok)[-1]: what follows the last occurrence of tok.
AfterLast(s, tok) ==
  IF Contains(s, tok)
  THEN LET i == CHOOSE j \in 1..Len(s) :
                  s[j] = tok /\ \A k \in (j + 1)..Len(s) : s[k] # tok
       IN SubSeq(s, i + 1, Len(s))
  ELSE s

\* The positions at which 32 characters of [a-f0-9] start.
HexIdAt(s, i) ==
  /\ i + 1 <= Len(s)
  /\ HexLen(s[i]) + HexLen(s[i + 1]) = 32

\* ID_PATTERN.search(s): the leftmost 32 hexadecimal characters, <<>> if none.
ID_PATTERN_search(s) ==
  IF \E i \in 1..Len(s) : HexIdAt(s, i)
  THEN LET i == CHOOSE j \in 1..Len(s) :
                  HexIdAt(s, j) /\ \A k \in 1..(j - 1) : ~HexIdAt(s, k)
       IN SubSeq(s, i, i + 1)
  ELSE <<>>

\* Mutant of parse_urls: the stripped lines, the empty ones too.
RECURSIVE parse_urls_keeps_empty(_)
parse_urls_keeps_empty(f) ==
  IF f = <<>> THEN <<>>
  ELSE <<Strip(Head(f), Whitespace)>> \o parse_urls_keeps_empty(Tail(f))

\* parse_urls: the stripped lines that are not empty.
RECURSIVE parse_urls(_)
parse_urls(f) ==
  IF f = <<>> THEN <<>>
  ELSE LET line == Strip(Head(f), Whitespace)
       IN IF line # <<>> THEN <<line>> \o parse_urls(Tail(f)) ELSE parse_urls(Tail(f))

\* The positions where re.search finds https://pillowcase\.su/f/[a-f0-9]{32}.
LinkAt(s, i) ==
  /\ i + 3 <= Len(s)
  /\ s[i] = "https://"
  /\ s[i + 1] = "pillowcase.su/f/"
  /\ HexIdAt(s, i + 2)

\* Mutant of unwrap_pillowcase_url: the embedded link is searched for first.
unwrap_search_first(url) ==
  IF \E i \in 1..Len(url) : LinkAt(url, i)
  THEN LET i == CHOOSE j \in 1..Len(url) :
                  LinkAt(url, j) /\ \A k \in 1..(j - 1) : ~LinkAt(url, k)
       IN SubSeq(url, i, i + 3)
  ELSE IF Contains(url, "pillowcase.su/f/") THEN url ELSE <<>>

\* unwrap_pillowcase_url: the link, or <<>> for None.
unwrap_pillowcase_url(url) ==
  IF Contains(url, "pillowcase.su/f/") THEN url
  ELSE IF \E i \in 1..Len(url) : LinkAt(url, i)
       THEN LET i == CHOOSE j \in 1..Len(url) :
                       LinkAt(url, j) /\ \A k \in 1..(j - 1) : ~LinkAt(url, k)
            IN SubSeq(url, i, i + 3)
       ELSE <<>>

\* The filename download_file derives from the response (lines 67-71).
DeriveFilename(cd, identifier) ==
  IF cd # <<>> /\ Contains(cd, "filename=")
  THEN Strip(Strip(AfterLast(cd, "filename="), Whitespace), {"\""})
  ELSE identifier \o <<".bin">>

(* ----------------------------- file paths ----------------------------- *)

\* os.path.join(a, b)
PathJoin(a, b) ==
  IF b # <<>> /\ Head(b) = "/" THEN b
  ELSE IF a = <<>> \/ a[Len(a)] = "/" THEN a \o b
  ELSE a \o <<"/">> \o b

\* The file a path names: whether it starts at the root, and its components
\* once "/" separators are dropped and ".." segments are followed.
RECURSIVE Walk(_, _)
Walk(s, stack) ==
  IF s = <<>> THEN stack
  ELSE IF Head(s) = "/" THEN Walk(Tail(s), stack)
  ELSE IF Head(s) = ".."
       THEN Walk(Tail(s), IF stack = <<>> THEN <<>> ELSE SubSeq(stack, 1, Len(stack) - 1))
  ELSE Walk(Tail(s), Append(stack, Head(s)))

Resolve(path) ==
  [abs |-> path # <<>> /\ Head(path) = "/", parts |-> Walk(path, <<>>)]

IsPrefix(p, q) == Len(p) <= Len(q) /\ SubSeq(q, 1, Len(p)) = p

\* file f lies strictly below directory d
Under(d, f) ==
  /\ f.abs = d.abs
  /\ IsPrefix(d.parts, f.parts)
  /\ Len(d.parts) < Len(f.parts)

output_folder == PathJoin(BASE_DOWNLOAD_FOLDER, Timestamp)

(* ------------------------------- state -------------------------------- *)

VARIABLES
  inputFile,     \* the raw lines of onlyfiles.txt
  main_pc,       \* where main() is
  urls,          \* main's urls
  dirs,          \* the directories that exist, as resolved paths
  sessionOpen,   \* the shared aiohttp.ClientSession is open
  sem,           \* the value of the asyncio.Semaphore
  waiters,       \* the tasks queued in semaphore.acquire, oldest first
  running,       \* the download task the event loop is running, 0 if none
  pc,            \* where each download task is
  real_url,      \* download_file's locals, per task
  identifier,
  filename,
  reason,        \* the reason of the task's failure, "" while there is none
  offset,        \* chunks written through the task's file object
  opened,        \* the file the task opened for writing: <<>> or <<file>>
  nreq,          \* requests the task has issued
  nlog,          \* log_error calls the task has completed
  files,         \* the regular files on disk: resolved path -> content
  errlog,        \* the lines of errors.txt
  errlogExists,  \* errors.txt exists
  progress       \* the tqdm counter

vars ==
  <<inputFile, main_pc, urls, dirs, sessionOpen, sem, waiters, running, pc,
    real_url, identifier, filename, reason, offset, opened, nreq, nlog, files,
    errlog, errlogExists, progress>>

mainVars == <<inputFile, main_pc, urls, dirs, sessionOpen>>

localVars == <<real_url, identifier, filename, reason, offset, opened, nreq, nlog>>

diskVars == <<files, errlog, errlogExists>>

Slots == 1..MaxLines

TaskIds == {t \in Slots : pc[t] # "NoTask"}

Terminal == {"Succeeded", "Failed"}

\* The directories that exist when the program starts.
RootDir == [abs |-> TRUE, parts |-> <<>>]

WorkDir == [abs |-> FALSE, parts |-> <<>>]

OutputDir == Resolve(output_folder)

NoFiles == [f \in {} |-> <<>>]

Init ==
  /\ inputFile \in BoundedSeq(RawLines, MaxLines)
  /\ main_pc = "parse"
  /\ urls = <<>>
  /\ dirs = {RootDir, WorkDir}
  /\ sessionOpen = FALSE
  /\ sem = 0
  /\ waiters = <<>>
  /\ running = 0
  /\ pc = [t \in Slots |-> "NoTask"]
  /\ real_url = [t \in Slots |-> <<>>]
  /\ identifier = [t \in Slots |-> <<>>]
  /\ filename = [t \in Slots |-> <<>>]
  /\ reason = [t \in Slots |-> ""]
  /\ offset = [t \in Slots |-> 0]
  /\ opened = [t \in Slots |-> <<>>]
  /\ nreq = [t \in Slots |-> 0]
  /\ nlog = [t \in Slots |-> 0]
  /\ files = NoFiles
  /\ errlog = <<>>
  /\ errlogExists = FALSE
  /\ progress = 0

(* ------------------------------- main() ------------------------------- *)

\* main() is suspended or over: the event loop can run the download tasks.
MainAway == main_pc \in {"gather", "done", "nowork", "fatal"}

\* line 87: urls = parse_urls(INPUT_FILE)
ParseUrls ==
  /\ main_pc = "parse"
  /\ urls' = parse_urls(inputFile)
  /\ main_pc' = "check"
  /\ UNCHANGED <<inputFile, dirs, sessionOpen, sem, waiters, running, pc,
                 localVars, diskVars, progress>>

\* lines 90-92: no URL, nothing to do
NoWork ==
  /\ main_pc = "check"
  /\ Len(urls) = 0
  /\ main_pc' = "nowork"
  /\ UNCHANGED <<inputFile, urls, dirs, sessionOpen, sem, waiters, running, pc,
                 localVars, diskVars, progress>>

\* The directories os.makedirs(path, exist_ok=True) leaves behind.
MakeDirsResult(path) ==
  dirs \cup { [abs |-> Resolve(path).abs, parts |-> SubSeq(Resolve(path).parts, 1, k)] :
                k \in 1..Len(Resolve(path).parts) }

\* lines 94-96: the output folder is created
MakeDirs ==
  /\ main_pc = "check"
  /\ Len(urls) # 0
  /\ dirs' = MakeDirsResult(output_folder)
  /\ main_pc' = "semaphore"
  /\ UNCHANGED <<inputFile, urls, sessionOpen, sem, waiters, running, pc,
                 localVars, diskVars, progress>>

\* Mutant of MakeDirsFails: the OSError is swallowed and main() goes on.
MakeDirsFailureIgnored ==
  /\ main_pc = "check"
  /\ Len(urls) # 0
  /\ main_pc' = "semaphore"
  /\ UNCHANGED <<inputFile, urls, dirs, sessionOpen, sem, waiters, running, pc,
                 localVars, diskVars, progress>>

\* line 96 raises OSError: main() ends with the exception
MakeDirsFails ==
  /\ main_pc = "check"
  /\ Len(urls) # 0
  /\ main_pc' = "fatal"
  /\ UNCHANGED <<inputFile, urls, dirs, sessionOpen, sem, waiters, running, pc,
                 localVars, diskVars, progress>>

\* line 98: semaphore = asyncio.Semaphore(MAX_CONCURRENT_DOWNLOADS)
CreateSemaphore ==
  /\ main_pc = "semaphore"
  /\ sem' = MAX_CONCURRENT_DOWNLOADS
  /\ main_pc' = "session"
  /\ UNCHANGED <<inputFile, urls, dirs, sessionOpen, waiters, running, pc,
                 localVars, diskVars, progress>>

\* lines 101-107: the session and the progress bar are entered
OpenSession ==
  /\ main_pc = "session"
  /\ sessionOpen' = TRUE
  /\ progress' = 0
  /\ main_pc' = "tasks"
  /\ UNCHANGED <<inputFile, urls, dirs, sem, waiters, running, pc,
                 localVars, diskVars>>

\* lines 108-119: one coroutine per url, handed to asyncio.gather; main() waits
CreateTasks ==
  /\ main_pc = "tasks"
  /\ pc' = [t \in Slots |-> IF t <= Len(urls) THEN "Pending" ELSE "NoTask"]
  /\ main_pc' = "gather"
  /\ UNCHANGED <<inputFile, urls, dirs, sessionOpen, sem, waiters, running,
                 localVars, diskVars, progress>>

\* Mutant of GatherDone: the wait ends with the first task that failed.
GatherDoneOnFirstFailure ==
  \/ \A t \in TaskIds : pc[t] \in Terminal
  \/ \E t \in TaskIds : pc[t] = "Failed"

\* asyncio.gather's future is done: every task has returned.
GatherDone == \A t \in TaskIds : pc[t] \in Terminal

\* line 119 returns; the with blocks of lines 101-102 are left
GatherReturns ==
  /\ main_pc = "gather"
  /\ running = 0
  /\ GatherDone
  /\ sessionOpen' = FALSE
  /\ main_pc' = "summary"
  /\ UNCHANGED <<inputFile, urls, dirs, sem, waiters, running, pc,
                 localVars, diskVars, progress>>

\* lines 121-127: the summary is printed
Summary ==
  /\ main_pc = "summary"
  /\ main_pc' = "done"
  /\ UNCHANGED <<inputFile, urls, dirs, sessionOpen, sem, waiters, running, pc,
                 localVars, diskVars, progress>>

(* --------------------------- download_file ---------------------------- *)

\* Every coroutine handed to gather has had its first turn.  The tasks are
\* made ready in list order before main() waits (line 119), and the loop runs
\* what is ready before it looks at the network again.
AllStarted == \A t \in Slots : pc[t] # "Pending"

\* The event loop is free to give a download task its turn.
LoopIdle == MainAway /\ running = 0

\* Mutant of Locked: the value of the semaphore is not looked at.
LockedIgnoresValue == waiters # <<>>

\* asyncio.Semaphore.locked()
Locked == sem = 0 \/ waiters # <<>>

\* line 47, first turn of a task: semaphore.acquire() takes a slot or queues
StartTask(t) ==
  /\ LoopIdle
  /\ pc[t] = "Pending"
  /\ \A u \in 1..(t - 1) : pc[u] # "Pending"
  /\ IF Locked
     THEN /\ waiters' = Append(waiters, t)
          /\ pc' = [pc EXCEPT ![t] = "Waiting"]
          /\ UNCHANGED <<sem, running, filename>>
     ELSE /\ sem' = sem - 1
          /\ pc' = [pc EXCEPT ![t] = "Resolving"]
          /\ running' = t
          /\ filename' = [filename EXCEPT ![t] = Unknown]
          /\ UNCHANGED waiters
  /\ UNCHANGED <<mainVars, real_url, identifier, reason, offset, opened, nreq, nlog,
                 diskVars, progress>>

\* line 47, a queued task that was handed a slot gets its turn
ResumeWaiter(t) ==
  /\ LoopIdle
  /\ AllStarted
  /\ pc[t] = "Granted"
  /\ pc' = [pc EXCEPT ![t] = "Resolving"]
  /\ running' = t
  /\ filename' = [filename EXCEPT ![t] = Unknown]
  /\ UNCHANGED <<mainVars, sem, waiters, real_url, identifier, reason, offset, opened,
                 nreq, nlog, diskVars, progress>>

\* Mutant of ResolveUrl: a line without a link is passed on as it is.
ResolveUrlKeepsLine(t) ==
  /\ running = t
  /\ pc[t] = "Resolving"
  /\ real_url' = [real_url EXCEPT ![t] = urls[t]]
  /\ pc' = [pc EXCEPT ![t] = "Translating"]
  /\ UNCHANGED <<mainVars, sem, waiters, running, identifier, filename, reason, offset,
                 opened, nreq, nlog, diskVars, progress>>

\* lines 51-54: the resolver; no link is an early return through log_error
ResolveUrl(t) ==
  /\ running = t
  /\ pc[t] = "Resolving"
  /\ real_url' = [real_url EXCEPT ![t] = unwrap_pillowcase_url(urls[t])]
  /\ IF real_url'[t] = <<>>
     THEN /\ reason' = [reason EXCEPT ![t] = "No pillowcase link found"]
          /\ pc' = [pc EXCEPT ![t] = "LogOpen"]
     ELSE /\ pc' = [pc EXCEPT ![t] = "Translating"]
          /\ UNCHANGED reason
  /\ UNCHANGED <<mainVars, sem, waiters, running, identifier, filename, offset, opened,
                 nreq, nlog, diskVars, progress>>

\* Mutant of Translate: the endpoint is built and requested without an
\* identifier.
TranslateWithoutId(t) ==
  /\ running = t
  /\ pc[t] = "Translating"
  /\ identifier' = [identifier EXCEPT ![t] = ID_PATTERN_search(real_url[t])]
  /\ pc' = [pc EXCEPT ![t] = "Requesting"]
  /\ UNCHANGED <<mainVars, sem, waiters, running, real_url, filename, reason, offset,
                 opened, nreq, nlog, diskVars, progress>>

\* lines 56-62: the identifier; none is an early return through log_error
Translate(t) ==
  /\ running = t
  /\ pc[t] = "Translating"
  /\ identifier' = [identifier EXCEPT ![t] = ID_PATTERN_search(real_url[t])]
  /\ IF identifier'[t] = <<>>
     THEN /\ reason' = [reason EXCEPT ![t] = "No file ID found"]
          /\ pc' = [pc EXCEPT ![t] = "LogOpen"]
     ELSE /\ pc' = [pc EXCEPT ![t] = "Requesting"]
          /\ UNCHANGED reason
  /\ UNCHANGED <<mainVars, sem, waiters, running, real_url, filename, offset, opened,
                 nreq, nlog, diskVars, progress>>

\* line 62: the download endpoint of the task's identifier
download_url(t) == API_BASE \o identifier[t]

\* line 64: session.get(download_url) is issued and the task waits for the
\* response; a closed session raises at once
Request(t) ==
  /\ running = t
  /\ pc[t] = "Requesting"
  /\ IF sessionOpen
     THEN /\ nreq' = [nreq EXCEPT ![t] = @ + 1]
          /\ pc' = [pc EXCEPT ![t] = "Fetching"]
          /\ running' = 0
          /\ UNCHANGED reason
     ELSE /\ reason' = [reason EXCEPT ![t] = "RuntimeError"]
          /\ pc' = [pc EXCEPT ![t] = "Except"]
          /\ UNCHANGED <<nreq, running>>
  /\ UNCHANGED <<mainVars, sem, waiters, real_url, identifier, filename, offset, opened,
                 nlog, diskVars, progress>>

\* What can end a request before its body: a status raise_for_status rejects
\* (line 65), or the connection failing or timing out (line 64).
FetchErrors == {"ClientResponseError", "TimeoutError"}

\* lines 64-73: the response arrives with a good status; the filename is derived
ResponseArrives(t, cd) ==
  /\ LoopIdle
  /\ AllStarted
  /\ pc[t] = "Fetching"
  /\ filename' = [filename EXCEPT ![t] = DeriveFilename(cd, identifier[t])]
  /\ pc' = [pc EXCEPT ![t] = "Opening"]
  /\ running' = t
  /\ UNCHANGED <<mainVars, sem, waiters, real_url, identifier, reason, offset, opened,
                 nreq, nlog, diskVars, progress>>

\* Mutant of ResponseFails: a failed request is issued again.
ResponseFailsRetried(t, e) ==
  /\ LoopIdle
  /\ AllStarted
  /\ pc[t] = "Fetching"
  /\ nreq[t] < 2
  /\ pc' = [pc EXCEPT ![t] = "Requesting"]
  /\ running' = t
  /\ UNCHANGED <<mainVars, sem, waiters, localVars, diskVars, progress>>

\* Mutant of ResponseFails: the status is looked at after the filename is set.
ResponseFailsNamed(t, e) ==
  /\ LoopIdle
  /\ AllStarted
  /\ pc[t] = "Fetching"
  /\ filename' = [filename EXCEPT ![t] = DeriveFilename(<<>>, identifier[t])]
  /\ reason' = [reason EXCEPT ![t] = e]
  /\ pc' = [pc EXCEPT ![t] = "Except"]
  /\ running' = t
  /\ UNCHANGED <<mainVars, sem, waiters, real_url, identifier, offset, opened,
                 nreq, nlog, diskVars, progress>>

\* lines 64-65: the request fails
ResponseFails(t, e) ==
  /\ LoopIdle
  /\ AllStarted
  /\ pc[t] = "Fetching"
  /\ reason' = [reason EXCEPT ![t] = e]
  /\ pc' = [pc EXCEPT ![t] = "Except"]
  /\ running' = t
  /\ UNCHANGED <<mainVars, sem, waiters, real_url, identifier, filename, offset, opened,
                 nreq, nlog, diskVars, progress>>

\* line 73: filepath = os.path.join(output_folder, filename)
Filepath(t) == Resolve(PathJoin(output_folder, filename[t]))

Parent(f) == [abs |-> f.abs, parts |-> SubSeq(f.parts, 1, Len(f.parts) - 1)]

\* open(filepath, "wb") can succeed: the path is not a directory and the
\* directory it lies in exists.
CanOpen(f) == f \notin dirs /\ f.parts # <<>> /\ Parent(f) \in dirs

\* Mutant of OpenFile: a path that another task is writing to is not opened.
OpenFileUnlessBusy(t) ==
  /\ running = t
  /\ pc[t] = "Opening"
  /\ CanOpen(Filepath(t))
  /\ \A u \in Slots \ {t} : ~(pc[u] = "Streaming" /\ opened[u] = <<Filepath(t)>>)
  /\ files' = [f \in DOMAIN files \cup {Filepath(t)} |-> IF f = Filepath(t) THEN <<>> ELSE files[f]]
  /\ opened' = [opened EXCEPT ![t] = <<Filepath(t)>>]
  /\ offset' = [offset EXCEPT ![t] = 0]
  /\ pc' = [pc EXCEPT ![t] = "Streaming"]
  /\ running' = 0
  /\ UNCHANGED <<mainVars, sem, waiters, real_url, identifier, filename, reason,
                 nreq, nlog, errlog, errlogExists, progress>>

\* line 75: the file is created or truncated; the task waits for the body
OpenFile(t) ==
  /\ running = t
  /\ pc[t] = "Opening"
  /\ CanOpen(Filepath(t))
  /\ files' = [f \in DOMAIN files \cup {Filepath(t)} |-> IF f = Filepath(t) THEN <<>> ELSE files[f]]
  /\ opened' = [opened EXCEPT ![t] = <<Filepath(t)>>]
  /\ offset' = [offset EXCEPT ![t] = 0]
  /\ pc' = [pc EXCEPT ![t] = "Streaming"]
  /\ running' = 0
  /\ UNCHANGED <<mainVars, sem, waiters, real_url, identifier, filename, reason,
                 nreq, nlog, errlog, errlogExists, progress>>

\* line 75 raises OSError (a directory, a missing directory, no permission)
OpenFails(t) ==
  /\ running = t
  /\ pc[t] = "Opening"
  /\ reason' = [reason EXCEPT ![t] = "OSError"]
  /\ pc' = [pc EXCEPT ![t] = "Except"]
  /\ UNCHANGED <<mainVars, sem, waiters, running, real_url, identifier, filename, offset,
                 opened, nreq, nlog, diskVars, progress>>

\* The content of a file after chunk number k (from 0) is written by task t;
\* what lies before a write past the end reads as 0.
WriteAt(content, k, t) ==
  [i \in 1..(IF Len(content) > k + 1 THEN Len(content) ELSE k + 1) |->
     IF i = k + 1 THEN t
     ELSE IF i <= Len(content) THEN content[i]
     ELSE 0]

\* lines 76-77: a chunk arrives and is written at the file object's position
ChunkArrives(t) ==
  /\ LoopIdle
  /\ AllStarted
  /\ pc[t] = "Streaming"
  /\ offset[t] < MaxChunks
  /\ files' = [files EXCEPT ![opened[t][1]] = WriteAt(@, offset[t], t)]
  /\ offset' = [offset EXCEPT ![t] = @ + 1]
  /\ UNCHANGED <<mainVars, sem, waiters, running, pc, real_url, identifier, filename,
                 reason, opened, nreq, nlog, errlog, errlogExists, progress>>

\* What can end the streaming: the connection (line 76) or the write (line 77).
StreamErrors == {"ClientPayloadError", "OSError"}

\* Mutant of StreamFails: the file is removed when the streaming raises.
StreamFailsRemovesFile(t, e) ==
  /\ LoopIdle
  /\ AllStarted
  /\ pc[t] = "Streaming"
  /\ reason' = [reason EXCEPT ![t] = e]
  /\ pc' = [pc EXCEPT ![t] = "Except"]
  /\ running' = t
  /\ files' = [f \in DOMAIN files \ {opened[t][1]} |-> files[f]]
  /\ UNCHANGED <<mainVars, sem, waiters, real_url, identifier, filename, offset, opened,
                 nreq, nlog, errlog, errlogExists, progress>>

\* lines 75-77: the streaming raises; the with block closes the file
StreamFails(t, e) ==
  /\ LoopIdle
  /\ AllStarted
  /\ pc[t] = "Streaming"
  /\ reason' = [reason EXCEPT ![t] = e]
  /\ pc' = [pc EXCEPT ![t] = "Except"]
  /\ running' = t
  /\ UNCHANGED <<mainVars, sem, waiters, real_url, identifier, filename, offset, opened,
                 nreq, nlog, diskVars, progress>>

\* lines 75-77: the body ends; the file is closed and the response released
BodyEnds(t) ==
  /\ LoopIdle
  /\ AllStarted
  /\ pc[t] = "Streaming"
  /\ pc' = [pc EXCEPT ![t] = "Finally"]
  /\ running' = t
  /\ UNCHANGED <<mainVars, sem, waiters, real_url, identifier, filename, reason, offset,
                 opened, nreq, nlog, diskVars, progress>>

\* Mutant of Except: the handler swallows the exception without a record.
ExceptWithoutRecord(t) ==
  /\ running = t
  /\ pc[t] = "Except"
  /\ pc' = [pc EXCEPT ![t] = "Finally"]
  /\ UNCHANGED <<mainVars, sem, waiters, running, localVars, diskVars, progress>>

\* lines 79-80: the handler calls log_error(filename, url, str(e))
Except(t) ==
  /\ running = t
  /\ pc[t] = "Except"
  /\ pc' = [pc EXCEPT ![t] = "LogOpen"]
  /\ UNCHANGED <<mainVars, sem, waiters, running, localVars, diskVars, progress>>

(* ------------------------------ log_error ----------------------------- *)

\* Mutant of ErrorRecord: the filename is not passed on.
ErrorRecordUnnamed(t) == [filename |-> Unknown, url |-> urls[t], reason |-> reason[t]]

\* line 37: the line log_error writes
ErrorRecord(t) == [filename |-> filename[t], url |-> urls[t], reason |-> reason[t]]

\* line 36: errors.txt is opened for appending, and created if missing
LogOpen(t) ==
  /\ running = t
  /\ pc[t] = "LogOpen"
  /\ errlogExists' = TRUE
  /\ pc' = [pc EXCEPT ![t] = "LogWrite"]
  /\ UNCHANGED <<mainVars, sem, waiters, running, localVars, files, errlog, progress>>

\* Mutant of LogWrite: the write is awaited, so the event loop is given up.
LogWriteAwaited(t) ==
  /\ running = t
  /\ pc[t] = "LogWrite"
  /\ pc' = [pc EXCEPT ![t] = "LogClose"]
  /\ running' = 0
  /\ UNCHANGED <<mainVars, sem, waiters, localVars, diskVars, progress>>

\* line 37: the line goes into the file object's buffer
LogWrite(t) ==
  /\ running = t
  /\ pc[t] = "LogWrite"
  /\ pc' = [pc EXCEPT ![t] = "LogClose"]
  /\ UNCHANGED <<mainVars, sem, waiters, running, localVars, diskVars, progress>>

\* Mutant of LogClose: errors.txt is opened in mode "w".
LogCloseOverwrites(t) ==
  /\ running = t
  /\ pc[t] = "LogClose"
  /\ errlog' = <<ErrorRecord(t)>>
  /\ nlog' = [nlog EXCEPT ![t] = @ + 1]
  /\ pc' = [pc EXCEPT ![t] = "Finally"]
  /\ UNCHANGED <<mainVars, sem, waiters, running, real_url, identifier, filename, reason,
                 offset, opened, nreq, files, errlogExists, progress>>

\* line 36, end of the with block: the buffer is appended to the file
LogClose(t) ==
  /\ running = t
  /\ pc[t] = "LogClose"
  /\ errlog' = Append(errlog, ErrorRecord(t))
  /\ nlog' = [nlog EXCEPT ![t] = @ + 1]
  /\ pc' = [pc EXCEPT ![t] = "Finally"]
  /\ UNCHANGED <<mainVars, sem, waiters, running, real_url, identifier, filename, reason,
                 offset, opened, nreq, files, errlogExists, progress>>

(* -------------------------- finally and release ----------------------- *)

\* Mutant of Finally: the counter is advanced for a success only.
FinallyOnSuccessOnly(t) ==
  /\ running = t
  /\ pc[t] = "Finally"
  /\ progress' = IF reason[t] = "" THEN progress + 1 ELSE progress
  /\ pc' = [pc EXCEPT ![t] = "Release"]
  /\ UNCHANGED <<mainVars, sem, waiters, running, localVars, diskVars>>

\* lines 82-83: progress.update(1)
Finally(t) ==
  /\ running = t
  /\ pc[t] = "Finally"
  /\ progress' = progress + 1
  /\ pc' = [pc EXCEPT ![t] = "Release"]
  /\ UNCHANGED <<mainVars, sem, waiters, running, localVars, diskVars>>

\* How the task ended.
Outcome(t) == IF reason[t] = "" THEN "Succeeded" ELSE "Failed"

\* Mutant of Release: the slot is given back without waking the oldest waiter.
ReleaseWithoutWakeup(t) ==
  /\ running = t
  /\ pc[t] = "Release"
  /\ sem' = sem + 1
  /\ pc' = [pc EXCEPT ![t] = Outcome(t)]
  /\ running' = 0
  /\ real_url' = [real_url EXCEPT ![t] = <<>>]
  /\ identifier' = [identifier EXCEPT ![t] = <<>>]
  /\ filename' = [filename EXCEPT ![t] = <<>>]
  /\ offset' = [offset EXCEPT ![t] = 0]
  /\ UNCHANGED <<mainVars, waiters, reason, opened, nreq, nlog, diskVars, progress>>

\* Mutant of Release: the slot is given back after a success only.
ReleaseOnSuccess(t) ==
  /\ running = t
  /\ pc[t] = "Release"
  /\ IF reason[t] # ""
     THEN /\ pc' = [pc EXCEPT ![t] = Outcome(t)]
          /\ UNCHANGED <<sem, waiters>>
     ELSE IF waiters # <<>>
     THEN /\ waiters' = Tail(waiters)
          /\ pc' = [pc EXCEPT ![t] = Outcome(t), ![Head(waiters)] = "Granted"]
          /\ UNCHANGED sem
     ELSE /\ sem' = sem + 1
          /\ pc' = [pc EXCEPT ![t] = Outcome(t)]
          /\ UNCHANGED waiters
  /\ running' = 0
  /\ real_url' = [real_url EXCEPT ![t] = <<>>]
  /\ identifier' = [identifier EXCEPT ![t] = <<>>]
  /\ filename' = [filename EXCEPT ![t] = <<>>]
  /\ offset' = [offset EXCEPT ![t] = 0]
  /\ UNCHANGED <<mainVars, reason, opened, nreq, nlog, diskVars, progress>>

\* line 47, end of the async with block: semaphore.release() hands the slot to
\* the oldest waiter, or gives it back; the coroutine returns and its locals
\* are gone (reason, opened, nreq and nlog stay as the record of what it did)
Release(t) ==
  /\ running = t
  /\ pc[t] = "Release"
  /\ IF waiters # <<>>
     THEN /\ waiters' = Tail(waiters)
          /\ pc' = [pc EXCEPT ![t] = Outcome(t), ![Head(waiters)] = "Granted"]
          /\ UNCHANGED sem
     ELSE /\ sem' = sem + 1
          /\ pc' = [pc EXCEPT ![t] = Outcome(t)]
          /\ UNCHANGED waiters
  /\ running' = 0
  /\ real_url' = [real_url EXCEPT ![t] = <<>>]
  /\ identifier' = [identifier EXCEPT ![t] = <<>>]
  /\ filename' = [filename EXCEPT ![t] = <<>>]
  /\ offset' = [offset EXCEPT ![t] = 0]
  /\ UNCHANGED <<mainVars, reason, opened, nreq, nlog, diskVars, progress>>

(* --------------------------- specification ---------------------------- *)

Next ==
  \/ ParseUrls
  \/ NoWork
  \/ MakeDirs
  \/ MakeDirsFails
  \/ CreateSemaphore
  \/ OpenSession
  \/ CreateTasks
  \/ GatherReturns
  \/ Summary
  \/ \E t \in Slots : StartTask(t)
  \/ \E t \in Slots : ResumeWaiter(t)
  \/ \E t \in Slots : ResolveUrl(t)
  \/ \E t \in Slots : Translate(t)
  \/ \E t \in Slots : Request(t)
  \/ \E t \in Slots : \E cd \in Headers : ResponseArrives(t, cd)
  \/ \E t \in Slots : \E e \in FetchErrors : ResponseFails(t, e)
  \/ \E t \in Slots : OpenFile(t)
  \/ \E t \in Slots : OpenFails(t)
  \/ \E t \in Slots : ChunkArrives(t)
  \/ \E t \in Slots : \E e \in StreamErrors : StreamFails(t, e)
  \/ \E t \in Slots : BodyEnds(t)
  \/ \E t \in Slots : Except(t)
  \/ \E t \in Slots : LogOpen(t)
  \/ \E t \in Slots : LogWrite(t)
  \/ \E t \in Slots : LogClose(t)
  \/ \E t \in Slots : Finally(t)
  \/ \E t \in Slots : Release(t)

Spec == Init /\ [][Next]_vars

(* ------------------------- shared definitions ------------------------- *)

\* The tasks that are inside the async with semaphore block (lines 48-83).
InGate == {t \in Slots : pc[t] \notin {"NoTask", "Pending", "Waiting", "Granted"} \cup Terminal}

\* The tasks that hold a slot of the semaphore.
Holders == InGate \cup {t \in Slots : pc[t] = "Granted"}

\* The tasks with a request in flight (lines 64-77).
ActiveRequests == {t \in Slots : pc[t] \in {"Fetching", "Opening", "Streaming"}}

\* The non-empty lines of the input file, counted on the file itself.
NonEmptyLines ==
  Cardinality({i \in DOMAIN inputFile : \E j \in DOMAIN inputFile[i] : inputFile[i][j] \notin Whitespace})

\* Task t created or truncated a file on disk.
FileWritten(t) == opened[t] # <<>> /\ opened[t][1] \in DOMAIN files

\* Task t appended an Error Record.
RecordAppended(t) == nlog[t] > 0

(* -------------------------------- C1 ---------------------------------- *)

\* C1 (as claimed): when a download task is terminal, exactly one of the two
\* outcomes has occurred for it: it wrote a file, or it appended an Error
\* Record; never both and never neither.
C1_ExactlyOneOutcome ==
  \A t \in Slots :
    pc[t] \in Terminal => (FileWritten(t) /\ ~RecordAppended(t)) \/ (~FileWritten(t) /\ RecordAppended(t))

(* -------------------------------- C2 ---------------------------------- *)

\* C2: at most MAX_CONCURRENT_DOWNLOADS tasks hold a slot of the gate, so at
\* most that many are inside the guarded section or have a request in flight;
\* a task that found the gate full is not inside it.
C2_CapRespected ==
  /\ Cardinality(Holders) <= MAX_CONCURRENT_DOWNLOADS
  /\ Cardinality(ActiveRequests) <= MAX_CONCURRENT_DOWNLOADS
  /\ \A t \in Slots : pc[t] = "Waiting" =>
       /\ nreq[t] = 0
       /\ real_url[t] = <<>>
       /\ Cardinality(Holders) = MAX_CONCURRENT_DOWNLOADS

\* More tasks than slots: every slot carries a request and a task waits.
C2_Witness ==
  /\ Cardinality(TaskIds) > MAX_CONCURRENT_DOWNLOADS
  /\ Cardinality(ActiveRequests) = MAX_CONCURRENT_DOWNLOADS
  /\ \E t \in Slots : pc[t] = "Waiting"

(* -------------------------------- C3 ---------------------------------- *)

\* The tasks that have passed progress.update(1).
Counted == {t \in Slots : pc[t] \in {"Release"} \cup Terminal}

C3_Counter ==
  /\ progress = Cardinality(Counted)
  /\ progress <= NonEmptyLines
  /\ (main_pc \in {"summary", "done"} => progress = NonEmptyLines)

\* C3: the progress counter is advanced exactly once by each task, when the
\* task ends and whatever its outcome: it counts the tasks that have ended,
\* never decreases, never exceeds the number of non-empty input lines and
\* equals it once all tasks are terminal.
C3_ProgressOncePerTask ==
  /\ []C3_Counter
  /\ [][progress' >= progress /\ progress' <= progress + 1]_vars

\* All of several tasks are terminal, some succeeded and some failed.
C3_Witness ==
  /\ main_pc = "done"
  /\ progress = NonEmptyLines
  /\ \E t, u \in Slots : pc[t] = "Succeeded" /\ pc[u] = "Failed"

(* -------------------------------- C4 ---------------------------------- *)

\* The tasks that exist and have not ended.
Unfinished == {t \in Slots : pc[t] \notin {"NoTask"} \cup Terminal}

\* C4: once the tasks are scheduled, main() reaches the summary, and closes
\* the shared session, only when every download task is Succeeded or Failed:
\* while a task is unfinished main() is at line 119 and the session is open.
C4_WaitsForAll ==
  /\ main_pc \in {"summary", "done"} => Unfinished = {}
  /\ Unfinished # {} => main_pc = "gather" /\ sessionOpen

\* The summary of a run in which a task failed and others went on to succeed.
C4_Witness ==
  /\ main_pc = "summary"
  /\ Cardinality(TaskIds) > MAX_CONCURRENT_DOWNLOADS
  /\ \E t, u \in Slots : t < u /\ pc[t] = "Failed" /\ pc[u] = "Succeeded"

(* -------------------------------- C5 ---------------------------------- *)

\* The reasons of the per-task errors.
PerTaskErrors ==
  {"No pillowcase link found", "No file ID found", "OSError"} \cup FetchErrors \cup StreamErrors

\* errors.txt holds the record of task t's failure.
HasRecord(t) ==
  \E i \in DOMAIN errlog : errlog[i].url = urls[t] /\ errlog[i].reason = reason[t]

C5_Caught ==
  /\ \A t \in Slots : reason[t] # "" => reason[t] \in PerTaskErrors
  /\ \A t \in Slots : pc[t] \in Terminal =>
       /\ (pc[t] = "Failed") = (reason[t] # "")
       /\ pc[t] = "Failed" => nlog[t] = 1 /\ HasRecord(t)
  /\ Unfinished # {} => ENABLED Next

C5_OwnFailure ==
  \A t \in Slots :
    reason'[t] # reason[t] =>
      /\ running' = t
      /\ \A u \in Slots \ {t} : pc'[u] = pc[u] /\ reason'[u] = reason[u]

\* C5: every per-task error is caught in download_file and becomes an Error
\* Record: a task fails only by its own error, in a step that leaves every
\* other task as it was, the Failed task has its record in errors.txt, and
\* the run is never stuck while a task is unfinished.
C5_FailureIsolated == []C5_Caught /\ [][C5_OwnFailure]_vars

\* A run that ended with two tasks failed for different reasons and one
\* succeeded.
C5_Witness ==
  /\ main_pc = "done"
  /\ \E t, u, v \in Slots :
       /\ pc[t] = "Failed" /\ pc[u] = "Failed" /\ reason[t] # reason[u]
       /\ pc[v] = "Succeeded"

(* -------------------------------- C6 ---------------------------------- *)

\* C6: with no non-empty input line main() reports that there is nothing to
\* do and ends; no directory, task, request, file or error log appears.
C6_NoWorkFrame ==
  NonEmptyLines = 0 =>
    /\ main_pc \in {"parse", "check", "nowork"}
    /\ main_pc = "check" => ENABLED NoWork
    /\ dirs = {RootDir, WorkDir}
    /\ TaskIds = {}
    /\ \A t \in Slots : nreq[t] = 0
    /\ ~sessionOpen
    /\ files = NoFiles
    /\ errlog = <<>> /\ ~errlogExists

\* main() has ended on an input file of blank lines.
C6_Witness == main_pc = "nowork" /\ Len(inputFile) = MaxLines

(* -------------------------------- C7 ---------------------------------- *)

\* C7: the output directory exists whenever a task exists, and so whenever a
\* task opens or writes a file; when its creation fails main() ends with no
\* task, no request, no file and no Error Record.
C7_DirBeforeTasks ==
  /\ TaskIds # {} => OutputDir \in dirs
  /\ \A t \in Slots : (pc[t] \in {"Opening", "Streaming"} \/ opened[t] # <<>>) => OutputDir \in dirs
  /\ main_pc = "fatal" =>
       /\ OutputDir \notin dirs
       /\ TaskIds = {}
       /\ \A t \in Slots : nreq[t] = 0
       /\ files = NoFiles
       /\ errlog = <<>> /\ ~errlogExists

\* A task is streaming into a file of the output directory.
C7_Witness ==
  \E t \in Slots :
    /\ pc[t] = "Streaming"
    /\ offset[t] > 0
    /\ Under(OutputDir, opened[t][1])

(* -------------------------------- C8 ---------------------------------- *)

\* C8 (as claimed): every file a task of the run writes lies under the run's
\* output directory, whatever filename the response leads to.
C8_FilesUnderOutputDir == \A f \in DOMAIN files : Under(OutputDir, f)

(* -------------------------------- C9 ---------------------------------- *)

\* The tasks that have errors.txt open.
LogHolders == {t \in Slots : pc[t] \in {"LogWrite", "LogClose"}}

RECURSIVE SumUpTo(_, _)
SumUpTo(f, n) == IF n = 0 THEN 0 ELSE f[n] + SumUpTo(f, n - 1)

C9_OneWriter ==
  /\ Cardinality(LogHolders) <= 1
  /\ \A t \in LogHolders : running = t
  /\ Len(errlog) = SumUpTo(nlog, MaxLines)
  /\ \A i \in DOMAIN errlog :
       \E t \in TaskIds : errlog[i].url = urls[t] /\ errlog[i].reason \in PerTaskErrors

C9_NoInterleaving ==
  \A t \in LogHolders :
    /\ \A u \in Slots \ {t} : pc'[u] = pc[u] /\ nlog'[u] = nlog[u]
    /\ errlog' = errlog \/ errlog' = Append(errlog, ErrorRecord(t))

\* C9: appends to the error log never interleave: while a task is between
\* the open and the close of log_error it is the running task and no other
\* task takes a step, and errors.txt is always a sequence of complete
\* records, one per completed call.
C9_AtomicAppend == []C9_OneWriter /\ [][C9_NoInterleaving]_vars

\* A task is about to close errors.txt, which already holds a record, while
\* another task has a request in flight.
C9_Witness ==
  \E t, u \in Slots :
    /\ pc[t] = "LogClose"
    /\ pc[u] \in {"Fetching", "Streaming"}
    /\ Len(errlog) >= 1

(* -------------------------------- C10 --------------------------------- *)

\* The stage of the task state machine a task is in.  A task that is on its
\* way out (handler, log_error, finally, release) is still in the stage it
\* stopped in; it is Succeeded or Failed once the coroutine has returned.
StageOf(p, link, id) ==
  CASE p = "NoTask" -> "None"
    [] p \in {"Pending", "Waiting", "Granted"} -> "Pending"
    [] p \in Terminal -> p
    [] p = "Resolving" -> "Resolving"
    [] p \in {"Translating", "Requesting"} -> "Translating"
    [] p \in {"Fetching", "Opening", "Streaming"} -> "Fetching"
    [] OTHER -> IF link = <<>> THEN "Resolving"
                ELSE IF id = <<>> THEN "Translating"
                ELSE "Fetching"

Stage(t) == StageOf(pc[t], real_url[t], identifier[t])

StageAfter(t) == StageOf(pc'[t], real_url'[t], identifier'[t])

StageMoves ==
  { <<"None", "Pending">>,
    <<"Pending", "Resolving">>,
    <<"Resolving", "Translating">>, <<"Resolving", "Failed">>,
    <<"Translating", "Fetching">>, <<"Translating", "Failed">>,
    <<"Fetching", "Succeeded">>, <<"Fetching", "Failed">> }

C10_Step ==
  /\ \A t \in Slots :
       /\ StageAfter(t) # Stage(t) => <<Stage(t), StageAfter(t)>> \in StageMoves
       /\ nreq'[t] # nreq[t] =>
            /\ nreq[t] = 0 /\ nreq'[t] = 1
            /\ Stage(t) = "Translating" /\ StageAfter(t) = "Fetching"
       /\ pc[t] \in Terminal =>
            /\ pc'[t] = pc[t]
            /\ nreq'[t] = nreq[t] /\ nlog'[t] = nlog[t] /\ opened'[t] = opened[t]
  /\ files' # files =>
       \E t \in Slots : Stage(t) = "Fetching" /\ (opened'[t] # opened[t] \/ offset'[t] # offset[t])
  /\ errlog' # errlog =>
       \E t \in Slots : pc[t] \notin Terminal /\ nlog'[t] = nlog[t] + 1

\* C10: a task moves only along Pending -> Resolving -> Translating ->
\* Fetching -> Succeeded or Failed, a failure leading straight to Failed; a
\* request is issued once, on entering Fetching; a terminal task stays as it
\* is and issues no request, write or log append.
C10_StageOrder == [][C10_Step]_vars

\* One task succeeded, one failed while fetching, one failed before any
\* request.
C10_Witness ==
  \E t, u, v \in Slots :
    /\ pc[t] = "Succeeded" /\ nreq[t] = 1
    /\ pc[u] = "Failed" /\ nreq[u] = 1
    /\ pc[v] = "Failed" /\ nreq[v] = 0

(* -------------------------------- C11 --------------------------------- *)

\* The record of a failure of task t that happened before any filename was
\* derived.
UnknownRecord(t) == [filename |-> Unknown, url |-> urls[t], reason |-> reason[t]]

\* C11: when the response status indicates failure (raise_for_status raises
\* ClientResponseError) the task has no file created or opened, and it ends
\* Failed with one Error Record whose filename is "unknown" and whose url is
\* the input line.
C11_StatusFailure ==
  /\ \A t \in Slots : reason[t] = "ClientResponseError" =>
       /\ opened[t] = <<>>
       /\ pc[t] \notin {"Opening", "Streaming", "Succeeded"}
       /\ pc[t] = "Failed" =>
            /\ nlog[t] = 1
            /\ \E i \in DOMAIN errlog : errlog[i] = UnknownRecord(t)
  /\ \A i \in DOMAIN errlog :
       errlog[i].reason = "ClientResponseError" => errlog[i].filename = Unknown

\* A task has ended on a bad status while another task wrote its file.
C11_Witness ==
  \E t, u \in Slots :
    /\ pc[t] = "Failed" /\ reason[t] = "ClientResponseError"
    /\ pc[u] = "Succeeded" /\ FileWritten(u)

(* -------------------------------- C12 --------------------------------- *)

\* The filenames the fetcher can derive for task t.
DerivableFilenames(t) == {DeriveFilename(cd, identifier[t]) : cd \in Headers}

\* The step appends task t's Error Record.
Appends(t) == nlog'[t] = nlog[t] + 1

C12_Step ==
  \A t \in Slots :
    Appends(t) =>
      /\ errlog' = Append(errlog, [filename |-> filename[t], url |-> urls[t], reason |-> reason[t]])
      /\ reason[t] \in FetchErrors => filename[t] = Unknown /\ opened[t] = <<>>
      /\ reason[t] \in StreamErrors =>
           /\ filename[t] \in DerivableFilenames(t)
           /\ opened[t] # <<>> => opened[t][1] = Resolve(PathJoin(output_folder, filename[t]))
      /\ reason[t] = "ClientPayloadError" => opened[t] # <<>>
      /\ \A u \in Slots \ {t} : pc'[u] = pc[u] /\ reason'[u] = reason[u]

\* C12: the Error Record of an exception during the fetch carries the
\* filename determined so far: "unknown" when the request failed before the
\* headers were processed, the derived filename when open() or the streaming
\* failed; appending it changes no other task.
C12_FilenameSoFar == [][C12_Step]_vars

\* errors.txt holds a record with a derived filename and a record of a
\* request that failed before its headers.
C12_Witness ==
  \E i, j \in DOMAIN errlog :
    /\ errlog[i].filename = <<"song.mp3">> /\ errlog[i].reason \in StreamErrors
    /\ errlog[j].filename = Unknown /\ errlog[j].reason \in FetchErrors

(* -------------------------------- C13 --------------------------------- *)

\* The resolver finds no source link in task t's line.
NoSourceLink(t) == t \in TaskIds /\ unwrap_pillowcase_url(urls[t]) = <<>>

\* Task t made no request and opened no file.
NoRequestNoFile(t) == nreq[t] = 0 /\ opened[t] = <<>>

\* errors.txt holds the record ("unknown", task t's line, r).
LoggedUnknown(t, r) ==
  \E i \in DOMAIN errlog : errlog[i] = [filename |-> Unknown, url |-> urls[t], reason |-> r]

\* C13 as stated: the record of a line without a source link carries the
\* reason "no source link found".
C13_AsClaimed ==
  \A t \in Slots :
    NoSourceLink(t) /\ pc[t] = "Failed" => LoggedUnknown(t, "no source link found")

\* C13: a task whose line has no source link never issues a request and never
\* opens a file; it ends Failed with exactly one Error Record, ("unknown", the
\* line, "No pillowcase link found").
C13_NoSourceLink ==
  \A t \in Slots :
    NoSourceLink(t) =>
      /\ NoRequestNoFile(t)
      /\ pc[t] # "Succeeded"
      /\ reason[t] \in {"", "No pillowcase link found"}
      /\ pc[t] = "Failed" =>
           /\ nlog[t] = 1
           /\ LoggedUnknown(t, "No pillowcase link found")

\* The task of the line "not a valid url at all" has ended.
C13_Witness ==
  \E t \in Slots :
    /\ t \in TaskIds /\ urls[t] = LineJunk
    /\ pc[t] = "Failed"
    /\ LoggedUnknown(t, "No pillowcase link found")

(* -------------------------------- C14 --------------------------------- *)

\* Task t's line resolves to a link in which no identifier is found.
NoFileId(t) ==
  /\ t \in TaskIds
  /\ unwrap_pillowcase_url(urls[t]) # <<>>
  /\ ID_PATTERN_search(unwrap_pillowcase_url(urls[t])) = <<>>

\* C14 as stated: the record of a link without an identifier carries the
\* reason "no file ID found".
C14_AsClaimed ==
  \A t \in Slots :
    NoFileId(t) /\ pc[t] = "Failed" => LoggedUnknown(t, "no file ID found")

\* C14: a task whose canonical link has no 32-character hexadecimal
\* identifier never issues a request and never opens a file; it ends Failed
\* with exactly one Error Record, ("unknown", the line, "No file ID found").
C14_NoFileId ==
  \A t \in Slots :
    NoFileId(t) =>
      /\ NoRequestNoFile(t)
      /\ pc[t] # "Succeeded"
      /\ reason[t] \in {"", "No file ID found"}
      /\ pc[t] = "Failed" =>
           /\ nlog[t] = 1
           /\ LoggedUnknown(t, "No file ID found")

\* The task of a link that stops after 16 hexadecimal characters has ended.
C14_Witness ==
  \E t \in Slots :
    /\ t \in TaskIds /\ urls[t] = LineNoId
    /\ pc[t] = "Failed"
    /\ LoggedUnknown(t, "No file ID found")

(* -------------------------------- C15 --------------------------------- *)

\* The resolver and the translator applied to every line of a bounded set:
\* one task that holds a slot and is about to run line 51.
MaxUrlLen == 5

UrlTokens == {"https://href.li/?", "https://", "pillowcase.su/f/", "0123456789abcdef"}

ResolverInputs == BoundedSeq(UrlTokens, MaxUrlLen) \ {<<>>}

InitResolver ==
  /\ \E u \in ResolverInputs :
       /\ inputFile = <<u \o <<"\n">>>>
       /\ urls = parse_urls(inputFile)
  /\ main_pc = "gather"
  /\ dirs = {RootDir, WorkDir} \cup
            { [abs |-> OutputDir.abs, parts |-> SubSeq(OutputDir.parts, 1, k)] :
                k \in 1..Len(OutputDir.parts) }
  /\ sessionOpen = TRUE
  /\ sem = MAX_CONCURRENT_DOWNLOADS - 1
  /\ waiters = <<>>
  /\ running = 1
  /\ pc = [t \in Slots |-> IF t = 1 THEN "Resolving" ELSE "NoTask"]
  /\ real_url = [t \in Slots |-> <<>>]
  /\ identifier = [t \in Slots |-> <<>>]
  /\ filename = [t \in Slots |-> IF t = 1 THEN Unknown ELSE <<>>]
  /\ reason = [t \in Slots |-> ""]
  /\ offset = [t \in Slots |-> 0]
  /\ opened = [t \in Slots |-> <<>>]
  /\ nreq = [t \in Slots |-> 0]
  /\ nlog = [t \in Slots |-> 0]
  /\ files = NoFiles
  /\ errlog = <<>>
  /\ errlogExists = FALSE
  /\ progress = 0

NextResolver ==
  \/ \E t \in Slots : ResolveUrl(t)
  \/ \E t \in Slots : Translate(t)

SpecResolver == InitResolver /\ [][NextResolver]_vars

\* Task t is past line 51 and its real_url is what the resolver returned.
Resolved(t) == pc[t] \in {"Translating", "Requesting", "LogOpen"}

\* The leftmost embedded link of url, <<>> if there is none: what
\* re.search(...).group(1) of line 29 yields.
EmbeddedLink(url) ==
  IF \E i \in 1..Len(url) : LinkAt(url, i)
  THEN LET i == CHOOSE j \in 1..Len(url) :
                  LinkAt(url, j) /\ \A k \in 1..(j - 1) : ~LinkAt(url, k)
       IN SubSeq(url, i, i + 3)
  ELSE <<>>

\* C15: what unwrap_pillowcase_url returns is determined by whether the line
\* contains "pillowcase.su/f/": such a line is returned unchanged, and
\* resolving the result again gives the same link and the same identifier;
\* any other line gives its embedded link if it has one and "not usable"
\* otherwise. The extraction never yields a value different from the line: a
\* line with an embedded link contains the segment, so every result is the
\* line itself or "not usable".
C15_Resolver ==
  \A t \in Slots :
    Resolved(t) =>
      /\ Contains(urls[t], "pillowcase.su/f/") =>
           /\ real_url[t] = urls[t]
           /\ unwrap_pillowcase_url(real_url[t]) = real_url[t]
           /\ ID_PATTERN_search(unwrap_pillowcase_url(real_url[t])) = ID_PATTERN_search(urls[t])
      /\ ~Contains(urls[t], "pillowcase.su/f/") => real_url[t] = EmbeddedLink(urls[t])
      /\ real_url[t] \in {urls[t], <<>>}
      /\ (real_url[t] = <<>>) <=> (reason[t] = "No pillowcase link found")

\* A line that wraps a canonical link in a redirector has been resolved to
\* the whole line, not to the link inside it.
C15_Witness ==
  \E t \in TaskIds :
    /\ pc[t] = "Requesting"
    /\ urls[t] = LineWrapped
    /\ real_url[t] = LineWrapped
    /\ EmbeddedLink(urls[t]) # urls[t]
    /\ identifier[t] = <<"0123456789abcdef", "0123456789abcdef">>

(* -------------------------------- C16 --------------------------------- *)

\* The tasks, other than t, that have path f open for writing.
WritersOf(f, t) == {u \in Slots \ {t} : pc[u] = "Streaming" /\ opened[u] = <<f>>}

\* The paths the tasks of this run have opened.
OpenedPaths == {opened[t][1] : t \in {u \in Slots : opened[u] # <<>>}}

\* The step is task t opening a path that another task is writing to.
CollidingOpen(t) ==
  /\ pc[t] = "Opening" /\ pc'[t] = "Streaming"
  /\ WritersOf(Filepath(t), t) # {}

C16_Step ==
  \A t \in Slots :
    CollidingOpen(t) =>
      /\ files'[Filepath(t)] = <<>>
      /\ \A u \in WritersOf(Filepath(t), t) :
           pc'[u] = "Streaming" /\ opened'[u] = opened[u] /\ offset'[u] = offset[u]

\* C16: nothing keeps two tasks off the same output path. A task that is
\* about to open its file can do so while another task is writing to the same
\* path; the open truncates the file under the other writer, who goes on
\* writing at its own position; and the files of the run are the distinct
\* paths that were opened, so tasks that share a path share one file.
C16_NoCollisionGuard ==
  /\ [](\A t \in Slots :
          running = t /\ pc[t] = "Opening" /\ WritersOf(Filepath(t), t) # {} =>
            ENABLED OpenFile(t))
  /\ [](DOMAIN files = OpenedPaths)
  /\ [][C16_Step]_vars

\* Two tasks in flight have the same path open and each has written its
\* chunk: two chunks were written and the file holds one.
C16_Witness ==
  \E t, u \in Slots :
    /\ t # u
    /\ pc[t] = "Streaming" /\ pc[u] = "Streaming"
    /\ opened[t] = opened[u]
    /\ offset[t] = MaxChunks /\ offset[u] = MaxChunks
    /\ Len(files[opened[t][1]]) = MaxChunks

\* The run is over: two tasks that wrote to the same path are Succeeded and
\* the disk holds fewer files than there are Succeeded tasks.
C16_FewerFilesThanSuccesses ==
  /\ main_pc = "done"
  /\ \E t, u \in Slots :
       t # u /\ pc[t] = "Succeeded" /\ pc[u] = "Succeeded" /\ opened[t] = opened[u]
  /\ Cardinality(DOMAIN files) < Cardinality({t \in Slots : pc[t] = "Succeeded"})

(* -------------------------------- C17 --------------------------------- *)

\* Task t is on its failure path: between the raise and the end of the task.
OnFailurePath(t) ==
  reason[t] # "" /\ pc[t] \in {"Except", "LogOpen", "LogWrite", "LogClose", "Finally", "Release"}

\* errors.txt holds task t's record, and its filename joined to the output
\* folder is the path task t opened.
RecordNamesFile(t) ==
  \E i \in DOMAIN errlog :
    /\ errlog[i].url = urls[t]
    /\ errlog[i].reason = reason[t]
    /\ Resolve(PathJoin(output_folder, errlog[i].filename)) = opened[t][1]

C17_Step ==
  /\ DOMAIN files \subseteq DOMAIN files'
  /\ \A t \in Slots : running = t /\ OnFailurePath(t) => files' = files

\* C17: a failure after the output file was opened leaves the file where it
\* is. No step removes or renames a file, the failure path does not touch the
\* disk, and a task that ended Failed after open() has both its file, with
\* what was written before the failure, and its Error Record.
C17_PartialFileStays ==
  /\ [](\A t \in Slots : opened[t] # <<>> => opened[t][1] \in DOMAIN files)
  /\ [](\A t \in Slots : pc[t] = "Failed" /\ opened[t] # <<>> => RecordNamesFile(t))
  /\ [][C17_Step]_vars

\* The run is over; a task failed while streaming after it wrote a chunk, and
\* the chunk is still on disk next to the record.
C17_Witness ==
  /\ main_pc = "done"
  /\ \E t \in Slots :
       /\ pc[t] = "Failed" /\ reason[t] \in StreamErrors
       /\ opened[t] # <<>>
       /\ files[opened[t][1]] = <<t>>
       /\ RecordNamesFile(t)

(* -------------------------------- C18 --------------------------------- *)

\* The semaphore of line 98 exists.
GateExists == main_pc \in {"session", "tasks", "gather", "summary", "done"}

C18_Step ==
  /\ \A t \in Slots :
       \* a slot is taken by a task at its first turn or handed to it in the queue
       /\ t \in Holders' \ Holders => pc[t] \in {"Pending", "Waiting"}
       \* a slot is given back at the end of the async with block only
       /\ t \in Holders \ Holders' => pc[t] = "Release" /\ pc'[t] \in Terminal
       \* every exit path of the task goes through the release
       /\ pc'[t] \in Terminal => pc[t] \in Terminal \cup {"Release"}
       \* a task that is over takes no slot again
       /\ pc[t] \in Terminal => pc'[t] = pc[t]
  \* progress.update(1) runs inside the async with block
  /\ progress' # progress => running \in InGate /\ running \in InGate'

\* C18: the gate neither leaks nor over-releases. From its creation on, the
\* free slots and the tasks holding one add up to MAX_CONCURRENT_DOWNLOADS; a
\* task gets its slot once, before any of its work, and gives it back once,
\* at the end of every path through the task; the progress counter is
\* advanced by a task that still holds its slot; when every task is over all
\* slots are free.
C18_GateAccounting ==
  /\ [](GateExists =>
          /\ sem \in 0..MAX_CONCURRENT_DOWNLOADS
          /\ sem + Cardinality(Holders) = MAX_CONCURRENT_DOWNLOADS)
  /\ [](\A t \in Slots : pc[t] \in {"NoTask", "Pending", "Waiting"} =>
          nreq[t] = 0 /\ nlog[t] = 0 /\ opened[t] = <<>> /\ reason[t] = "")
  /\ [](GateExists /\ Holders = {} => sem = MAX_CONCURRENT_DOWNLOADS /\ waiters = <<>>)
  /\ [][C18_Step]_vars

\* More tasks than slots have run and ended in every way: by an early
\* return, by an exception and by success; all slots are free again.
C18_Witness ==
  /\ main_pc = "done"
  /\ Cardinality(TaskIds) > MAX_CONCURRENT_DOWNLOADS
  /\ sem = MAX_CONCURRENT_DOWNLOADS
  /\ \E t, u, v \in Slots :
       /\ pc[t] = "Failed" /\ reason[t] = "No file ID found"
       /\ pc[u] = "Failed" /\ reason[u] \in FetchErrors \cup StreamErrors
       /\ pc[v] = "Succeeded"

(* -------------------------------- C19 --------------------------------- *)

\* The program under fair scheduling: the event loop goes on running what is
\* ready (main, a task's first turn, a woken waiter, a task that holds the
\* loop), and every request that was issued ends, by a response, a chunk, the
\* end of the body or an error (the session's timeout of line 101 bounds it).
\* Each of these is a step of the program and none can be taken twice, so weak
\* fairness of the next-state relation says that none is put off forever.
\* Whether a task ends does not depend on the name a header carries, so the
\* fair runs take two of the headers: none, and one that names the file.
FairHeaders == {<<>>, <<"attachment; ", "filename=", "\"", "song.mp3", "\"">>}

NextFair ==
  \/ ParseUrls
  \/ NoWork
  \/ MakeDirs
  \/ MakeDirsFails
  \/ CreateSemaphore
  \/ OpenSession
  \/ CreateTasks
  \/ GatherReturns
  \/ Summary
  \/ \E t \in Slots : StartTask(t)
  \/ \E t \in Slots : ResumeWaiter(t)
  \/ \E t \in Slots : ResolveUrl(t)
  \/ \E t \in Slots : Translate(t)
  \/ \E t \in Slots : Request(t)
  \/ \E t \in Slots : \E cd \in FairHeaders : ResponseArrives(t, cd)
  \/ \E t \in Slots : \E e \in FetchErrors : ResponseFails(t, e)
  \/ \E t \in Slots : OpenFile(t)
  \/ \E t \in Slots : OpenFails(t)
  \/ \E t \in Slots : ChunkArrives(t)
  \/ \E t \in Slots : \E e \in StreamErrors : StreamFails(t, e)
  \/ \E t \in Slots : BodyEnds(t)
  \/ \E t \in Slots : Except(t)
  \/ \E t \in Slots : LogOpen(t)
  \/ \E t \in Slots : LogWrite(t)
  \/ \E t \in Slots : LogClose(t)
  \/ \E t \in Slots : Finally(t)
  \/ \E t \in Slots : Release(t)

FairSpec == Init /\ [][NextFair]_vars /\ WF_vars(NextFair)

\* main() has returned.
RunOver == main_pc \in {"done", "nowork", "fatal"}

\* C19: under fair scheduling, with every request ending, every task that
\* was created reaches Succeeded or Failed, also when there are more tasks
\* than slots; a task queued at the gate gets its slot; and the run reaches
\* its end, which is the final summary whenever tasks were created.
C19_EveryTaskEnds ==
  /\ \A t \in Slots : (pc[t] = "Pending") ~> (pc[t] \in Terminal)
  /\ \A t \in Slots : (pc[t] = "Waiting") ~> (t \in InGate)
  /\ \A t \in Slots : (t \in InGate) ~> (pc[t] \in Terminal)
  /\ <>RunOver
  /\ (main_pc = "gather") ~> (main_pc = "done" /\ Unfinished = {})

\* The run has reached the final summary after a task had to queue at the
\* gate: the first MAX_CONCURRENT_DOWNLOADS tasks issued a request at their
\* first turn, so a later task found the gate full; it has ended Succeeded and
\* every task is over.
C19_Witness ==
  /\ main_pc = "done"
  /\ \A t \in TaskIds : pc[t] \in Terminal
  /\ \A u \in 1..MAX_CONCURRENT_DOWNLOADS : nreq[u] = 1
  /\ \E t \in TaskIds : t > MAX_CONCURRENT_DOWNLOADS /\ pc[t] = "Succeeded"

(* -------------------------------- C20 --------------------------------- *)

\* A run that starts with an errors.txt an earlier run left behind: the file
\* is opened in append mode (line 36) and is never cleared.
OldLog == <<[filename |-> <<"old.bin">>, url |-> <<"https://", "old">>, reason |-> "TimeoutError"]>>

InitOldLog ==
  /\ inputFile \in BoundedSeq(RawLines, MaxLines)
  /\ main_pc = "parse"
  /\ urls = <<>>
  /\ dirs = {RootDir, WorkDir}
  /\ sessionOpen = FALSE
  /\ sem = 0
  /\ waiters = <<>>
  /\ running = 0
  /\ pc = [t \in Slots |-> "NoTask"]
  /\ real_url = [t \in Slots |-> <<>>]
  /\ identifier = [t \in Slots |-> <<>>]
  /\ filename = [t \in Slots |-> <<>>]
  /\ reason = [t \in Slots |-> ""]
  /\ offset = [t \in Slots |-> 0]
  /\ opened = [t \in Slots |-> <<>>]
  /\ nreq = [t \in Slots |-> 0]
  /\ nlog = [t \in Slots |-> 0]
  /\ files = NoFiles
  /\ errlog = OldLog
  /\ errlogExists = TRUE
  /\ progress = 0

SpecOldLog == InitOldLog /\ [][Next]_vars

\* The records this run has added to errors.txt.
Added == SubSeq(errlog, Len(OldLog) + 1, Len(errlog))

C20_Step ==
  /\ IsPrefix(errlog, errlog')
  /\ Len(errlog') <= Len(errlog) + 1
  /\ \A t \in Slots : nlog'[t] >= nlog[t]

\* C20: a task appends at most one Error Record: none if it ends Succeeded,
\* exactly one if it ends Failed, so the records a run adds are as many as its
\* Failed tasks, one for each; what is in errors.txt, from an earlier run or an
\* earlier task, is never changed or removed.
C20_OneRecordPerFailure ==
  /\ [](\A t \in Slots :
          /\ nlog[t] <= 1
          /\ pc[t] = "Succeeded" => nlog[t] = 0
          /\ pc[t] = "Failed" => nlog[t] = 1)
  /\ [](IsPrefix(OldLog, errlog) /\ Len(Added) = SumUpTo(nlog, MaxLines))
  /\ [](main_pc \in {"summary", "done"} =>
          /\ Len(Added) = Cardinality({t \in Slots : pc[t] = "Failed"})
          /\ \A t \in Slots : pc[t] = "Failed" =>
               \E i \in DOMAIN Added :
                 Added[i].url = urls[t] /\ Added[i].reason = reason[t])
  /\ [][C20_Step]_vars

\* The run is over with two Failed tasks and a Succeeded one: errors.txt is
\* the old record followed by two new ones.
C20_Witness ==
  /\ main_pc = "done"
  /\ Cardinality({t \in Slots : pc[t] = "Failed"}) = 2
  /\ Cardinality({t \in Slots : pc[t] = "Succeeded"}) = 1
  /\ Len(errlog) = Len(OldLog) + 2
  /\ errlog[1] = OldLog[1]

====
